---- MODULE Spec2Model ----
(***************************************************************************)
(* spotify-dl: the command handler of index.ts as a state machine.         *)
(*                                                                         *)
(* One run of the CLI: parse the URL, resolve the album / playlist         *)
(* (token, resource request, follow-up pages), create the destination      *)
(* directory, then download every track through a PQueue of concurrency    *)
(* 25, each job retrying downloadTrack up to maxRetries times.             *)
(*                                                                         *)
(* The program runs on the Node.js event loop: code between two awaits is  *)
(* atomic, so every action below is one continuation, from the completion  *)
(* of an awaited operation to the next await.  What the awaited operation  *)
(* returned (a response, an error) is the action's parameter; each         *)
(* specification draws the parameters from its own sets.                   *)
(***************************************************************************)
EXTENDS Integers, Sequences, FiniteSets, TLC

\* ---------------------------------------------------------------------
\* Program constants
\* ---------------------------------------------------------------------
concurrency == 25
maxRetries == 5
\* setTimeout(res, 1000): the delay before a retry, in milliseconds
retryDelay == 1000

\* ---------------------------------------------------------------------
\* Bounds of the model
\* ---------------------------------------------------------------------
\* Spec: most tracks a resource resolves to, most follow-up pages.
MaxTracks == 2
MaxPages == 1
\* SpecBig: number of tracks of the resource (more than the queue runs at
\* once), number of in-flight jobs whose awaited operation may complete
\* next (lowest positions first).
BigTracks == 26
Window == 1

VARIABLES
    pc,              \* position of the command handler
    resType,         \* type returned by parseSpotifyUrl ("none" before)
    accessToken,     \* module-level cache: "null", "undefined" or "tok"
    tokenRequests,   \* GETs sent to the token endpoint
    resourceRequests,\* GETs sent to api.spotify.com (resource and pages)
    tracks,          \* tracks accumulated by getSpotifyResource / data.tracks
    upstreamFailed,  \* a request of the resolution threw (history)
    served,          \* items of the pages taken in, in page order (history)
    servedCount,     \* sum of the item counts of those pages (history)
    nextSeen,        \* the last page taken in named a next page (history)
    dirCreated,      \* fs.ensureDir(fullPath) succeeded
    topError,        \* message printed by the handler's catch (<<>> before)
    success,         \* downloadStatus.success
    failures,        \* downloadStatus.failures
    barTotal,        \* total of the progress bar (-1: no bar created)
    barValue,        \* value of the progress bar
    summary,         \* the "(Download Summary)" blocks logged, in order
    queue,           \* PQueue: positions of the jobs waiting for a slot
    pending,         \* PQueue: number of jobs holding a slot
    jpc,             \* per job: position of the thunk
    attempt,         \* per job: the thunk's local `attempt`
    calls,           \* per job: number of downloadTrack invocations (history)
    result,          \* per job: terminal state reached (history)
    delays,          \* per job: the delays awaited, in ms, in order (history)
    steps,           \* per job: steps downloadTrack completed in the attempt
                     \* in progress, or in the attempt that succeeded (history)
    leftover,        \* per job: the file last written by the job comes from
                     \* an attempt that failed (history)
    trackNumber,     \* per job: trackNumber of the Tags last passed to
                     \* NodeID3.write, 0 if none was (history)
    files            \* file names written in the destination directory

vars == <<pc, resType, accessToken, tokenRequests, resourceRequests, tracks,
          upstreamFailed, served, servedCount, nextSeen, dirCreated, topError, success, failures, barTotal, barValue,
          summary, queue, pending, jpc, attempt, calls, result, delays, steps,
          leftover, trackNumber, files>>

pageVars == <<served, servedCount, nextSeen>>
resolverVars == <<resType, accessToken, tokenRequests, resourceRequests, tracks,
                  upstreamFailed, pageVars>>
statusVars == <<success, failures, barTotal, barValue, summary>>
queueVars == <<queue, pending>>
diskVars == <<leftover, trackNumber>>
traceVars == <<delays, steps, diskVars>>
jobVars == <<jpc, attempt, calls, result, traceVars>>

\* ---------------------------------------------------------------------
\* Data
\* ---------------------------------------------------------------------
RECURSIVE SeqsUpTo(_, _)
SeqsUpTo(S, n) ==
    IF n = 0 THEN {<<>>}
    ELSE LET shorter == SeqsUpTo(S, n - 1)
         IN shorter \cup {Append(s, x) : s \in {t \in shorter : Len(t) = n - 1}, x \in S}

\* artists.map(a => a.name).join(", "): the joined string is represented by
\* the list of names with the separator between them.
RECURSIVE join(_, _)
join(names, sep) ==
    IF names = <<>> THEN <<>>
    ELSE IF Len(names) = 1 THEN <<Head(names)>>
    ELSE <<Head(names), sep>> \o join(Tail(names), sep)

getArtistFromArtists(artists) ==
    join([k \in 1..Len(artists) |-> artists[k].name], ", ")

\* The catalogue upstream serves: track objects as the API returns them.
ApiTracks ==
    { [id |-> "a", name |-> "n1", artists |-> <<[name |-> "p"]>>],
      [id |-> "b", name |-> "n2", artists |-> <<[name |-> "p"], [name |-> "q"]>>] }

\* An album lists its tracks flat, a playlist wraps each in {track: ...}.
\* A playlist entry may carry no track object (track: null).
FlatItem(t) == [shape |-> "flat", id |-> t.id, name |-> t.name, artists |-> t.artists]
WrappedItem(t) == [shape |-> "wrapped", track |-> t]
NullItem == [shape |-> "wrappedNull"]

\* getTracks reads track.id of an item without id: a TypeError when the
\* item wraps null.
getTracksThrows(items) ==
    \E k \in 1..Len(items) : items[k].shape = "wrappedNull"

getTracks(items) ==
    [k \in 1..Len(items) |->
        IF items[k].shape = "flat"
        THEN [id |-> items[k].id, name |-> items[k].name,
              artist |-> getArtistFromArtists(items[k].artists)]
        ELSE [id |-> items[k].track.id, name |-> items[k].track.name,
              artist |-> getArtistFromArtists(items[k].track.artists)]]

getTrackName(track) == <<track.name, " - ">> \o track.artist

\* sanitize-filename removes the characters a file name cannot hold; the
\* names of the catalogue hold none, the separator tokens keep their text.
sanitizeFilename(name) == SelectSeq(name, LAMBDA part : part # "/")

Filename(track) == sanitizeFilename(getTrackName(track) \o <<".mp3">>)

\* ---------------------------------------------------------------------
\* URLs
\* ---------------------------------------------------------------------
\* A URL string is represented by what `new URL` makes of it: whether it
\* parses at all, its hostname as a list of text pieces, its pathname as a
\* list of pieces in which "/" is the separator.
Hostnames ==
    { <<"open.", "spotify.com">>, <<"spotify.com">>, <<"example.com">>,
      <<"evil", "spotify.com">>, <<"spotify.com", ".example.org">> }
Pathnames ==
    { <<"/">>, <<"/", "album", "/", "x1">>, <<"/", "playlist", "/", "x1">>,
      <<"/", "album">>, <<"/", "album", "/">>, <<"/", "track", "/", "x1">>,
      <<"/", "intl-de", "/", "album", "/", "x1">> }
Urls ==
    {[parses |-> FALSE, hostname |-> <<>>, pathname |-> <<>>]}
    \cup {[parses |-> TRUE, hostname |-> h, pathname |-> p] :
            h \in Hostnames, p \in Pathnames}

\* String.prototype.includes
includes(hostname, piece) == \E k \in 1..Len(hostname) : hostname[k] = piece

\* String.prototype.split("/"): the pieces between the separators, empty
\* strings included.
RECURSIVE split(_, _)
split(pathname, cur) ==
    IF pathname = <<>> THEN <<cur>>
    ELSE IF Head(pathname) = "/" THEN <<cur>> \o split(Tail(pathname), "")
    ELSE split(Tail(pathname), Head(pathname))

\* parseSpotifyUrl: the value returned, or the error thrown.
parseSpotifyUrl(url) ==
    IF ~url.parses THEN [ok |-> FALSE, error |-> <<"Invalid URL">>]
    ELSE IF ~includes(url.hostname, "spotify.com")
    THEN [ok |-> FALSE, error |-> <<"Invalid domain. Only Spotify URLs are supported.">>]
    ELSE LET pathParts == split(url.pathname, "")
             type == IF Len(pathParts) >= 2 THEN pathParts[2] ELSE "undefined"
             id == IF Len(pathParts) >= 3 THEN pathParts[3] ELSE "undefined"
         IN IF type \in {"album", "playlist"} /\ id \notin {"", "undefined"}
            THEN [ok |-> TRUE, type |-> type, id |-> id]
            ELSE [ok |-> FALSE,
                  error |-> <<"Invalid Spotify URL. Must be a valid album or playlist URL.">>]

\* ---------------------------------------------------------------------
\* Initial state: the module is loaded, the handler has not run
\* ---------------------------------------------------------------------
Init ==
    /\ pc = "init"
    /\ resType = "none"
    /\ accessToken = "null"
    /\ tokenRequests = 0
    /\ resourceRequests = 0
    /\ tracks = <<>>
    /\ upstreamFailed = FALSE
    /\ served = <<>>
    /\ servedCount = 0
    /\ nextSeen = FALSE
    /\ dirCreated = FALSE
    /\ topError = <<>>
    /\ success = <<>>
    /\ failures = <<>>
    /\ barTotal = -1
    /\ barValue = 0
    /\ summary = <<>>
    /\ queue = <<>>
    /\ pending = 0
    /\ jpc = <<>>
    /\ attempt = <<>>
    /\ calls = <<>>
    /\ result = <<>>
    /\ delays = <<>>
    /\ steps = <<>>
    /\ leftover = <<>>
    /\ trackNumber = <<>>
    /\ files = {}

\* ---------------------------------------------------------------------
\* Resolution: parseSpotifyUrl, getSpotifyAccessToken, getSpotifyResource
\* ---------------------------------------------------------------------
\* The handler's catch: console.error("Error:", message), nothing else.
Caught(message) ==
    /\ pc' = "caught"
    /\ topError' = message

\* getSpotifyResource's catch rethrows a fixed message naming the type.
FetchInfoError(type) == <<"Failed to fetch ", type, " info">>

\* Faulty variant: the handler goes on to the resolution although
\* parseSpotifyUrl threw.
HandlerNoAbort(url) ==
    /\ pc = "init"
    /\ LET parsed == parseSpotifyUrl(url)
       IN resType' = IF parsed.ok THEN parsed.type ELSE "none"
    /\ tokenRequests' = tokenRequests + 1
    /\ pc' = "token"
    /\ UNCHANGED <<accessToken, resourceRequests, tracks, upstreamFailed, pageVars,
                   topError, dirCreated, statusVars, queueVars, jobVars, files>>

\* The handler starts: parse the URL and, if it parses, enter
\* getSpotifyResource up to its first await.
Handler(url) ==
    /\ pc = "init"
    /\ LET parsed == parseSpotifyUrl(url)
       IN IF ~parsed.ok
          THEN /\ Caught(parsed.error)
               /\ UNCHANGED resolverVars
          ELSE /\ resType' = parsed.type
               /\ topError' = topError
               /\ IF accessToken \in {"null", "undefined"}
                  THEN /\ tokenRequests' = tokenRequests + 1
                       /\ pc' = "token"
                       /\ UNCHANGED resourceRequests
                  ELSE /\ resourceRequests' = resourceRequests + 1
                       /\ pc' = "resource"
                       /\ UNCHANGED tokenRequests
               /\ UNCHANGED <<accessToken, tracks, upstreamFailed, pageVars>>
    /\ UNCHANGED <<dirCreated, statusVars, queueVars, jobVars, files>>

\* The token endpoint answered (r = "token": with accessToken, "notoken":
\* without) or axios threw (r = "error").
TokenResponse(r) ==
    /\ pc = "token"
    /\ upstreamFailed' = (r = "error")
    /\ IF r = "error"
       THEN /\ Caught(FetchInfoError(resType))
            /\ UNCHANGED <<accessToken, resourceRequests>>
       ELSE /\ accessToken' = IF r = "token" THEN "tok" ELSE "undefined"
            /\ resourceRequests' = resourceRequests + 1
            /\ pc' = "resource"
            /\ topError' = topError
    /\ UNCHANGED <<resType, tokenRequests, tracks, pageVars, dirCreated, statusVars,
                   queueVars, jobVars, files>>

\* After a page has been taken in: follow next, or return the resource to
\* the handler, which calls fs.ensureDir.
AfterPage(next) ==
    IF next
    THEN /\ resourceRequests' = resourceRequests + 1
         /\ pc' = "page"
    ELSE /\ pc' = "ensureDir"
         /\ UNCHANGED resourceRequests

\* What upstream served with a page that was taken in.
PageTaken(r) ==
    /\ served' = served \o r.items
    /\ servedCount' = servedCount + Len(r.items)
    /\ nextSeen' = r.next

\* The resource request answered: r.kind = "error" (axios threw) or "ok"
\* with the first page of items and whether a next page exists.
ResourceResponse(r) ==
    /\ pc = "resource"
    /\ upstreamFailed' = (r.kind = "error" \/ getTracksThrows(r.items))
    /\ IF r.kind = "error" \/ getTracksThrows(r.items)
       THEN /\ Caught(FetchInfoError(resType))
            /\ UNCHANGED <<tracks, resourceRequests, pageVars>>
       ELSE /\ tracks' = getTracks(r.items)
            /\ AfterPage(r.next)
            /\ PageTaken(r)
            /\ topError' = topError
    /\ UNCHANGED <<resType, accessToken, tokenRequests, dirCreated, statusVars,
                   queueVars, jobVars, files>>

\* Faulty variant: a failed follow-up page ends the pagination and the
\* tracks of the earlier pages are returned.
PageResponseKeep(r) ==
    /\ pc = "page"
    /\ upstreamFailed' = (r.kind = "error" \/ getTracksThrows(r.items))
    /\ IF r.kind = "error" \/ getTracksThrows(r.items)
       THEN /\ tracks' = tracks
            /\ AfterPage(FALSE)
            /\ UNCHANGED pageVars
       ELSE /\ tracks' = tracks \o getTracks(r.items)
            /\ AfterPage(r.next)
            /\ PageTaken(r)
    /\ UNCHANGED <<resType, accessToken, tokenRequests, topError, dirCreated,
                   statusVars, queueVars, jobVars, files>>

\* Faulty variant: the tracks of a follow-up page are put in front of the
\* tracks of the earlier pages.
PageResponsePrepend(r) ==
    /\ pc = "page"
    /\ upstreamFailed' = (r.kind = "error" \/ getTracksThrows(r.items))
    /\ IF r.kind = "error" \/ getTracksThrows(r.items)
       THEN /\ Caught(FetchInfoError(resType))
            /\ tracks' = <<>>
            /\ UNCHANGED <<resourceRequests, pageVars>>
       ELSE /\ tracks' = getTracks(r.items) \o tracks
            /\ AfterPage(r.next)
            /\ PageTaken(r)
            /\ topError' = topError
    /\ UNCHANGED <<resType, accessToken, tokenRequests, dirCreated, statusVars,
                   queueVars, jobVars, files>>

\* A follow-up page answered.  On an error the local `tracks` is lost with
\* the frame of getSpotifyResource.
PageResponse(r) ==
    /\ pc = "page"
    /\ upstreamFailed' = (r.kind = "error" \/ getTracksThrows(r.items))
    /\ IF r.kind = "error" \/ getTracksThrows(r.items)
       THEN /\ Caught(FetchInfoError(resType))
            /\ tracks' = <<>>
            /\ UNCHANGED <<resourceRequests, pageVars>>
       ELSE /\ tracks' = tracks \o getTracks(r.items)
            /\ AfterPage(r.next)
            /\ PageTaken(r)
            /\ topError' = topError
    /\ UNCHANGED <<resType, accessToken, tokenRequests, dirCreated, statusVars,
                   queueVars, jobVars, files>>

\* ---------------------------------------------------------------------
\* PQueue (p-queue, concurrency 25) and the progress bar (cli-progress)
\* ---------------------------------------------------------------------
\* Faulty variant: the queue ignores its concurrency.
doesConcurrentAllowAnotherNoLimit(n) == TRUE

\* A job may start while fewer than `concurrency` jobs hold a slot.
doesConcurrentAllowAnother(n) == n < concurrency

\* Start the job at the head of the queue if a slot is free.  q is the
\* queue's state: the waiting positions, the slots held, and the positions
\* started by this call chain.
tryToStartAnother(q) ==
    IF q.queue # <<>> /\ doesConcurrentAllowAnother(q.pending)
    THEN [queue |-> Tail(q.queue), pending |-> q.pending + 1,
          started |-> q.started \cup {Head(q.queue)}]
    ELSE q

\* queue.add(fn): enqueue, then try to start.
add(q, i) == tryToStartAnother([q EXCEPT !.queue = Append(@, i)])

\* Faulty variant: the thunks are added from the last to the first.
RECURSIVE addAllReversed(_, _, _)
addAllReversed(q, i, n) ==
    IF i > n THEN q
    ELSE CHOOSE r \in {addAllReversed(after, i + 1, n) : after \in {add(q, n + 1 - i)}} : TRUE

\* queue.addAll(fns): add every thunk, in the order of the array.  (The
\* queue after each add is bound as a value, so that it is computed once.)
RECURSIVE addAll(_, _, _)
addAll(q, i, n) ==
    IF i > n THEN q
    ELSE CHOOSE r \in {addAll(after, i + 1, n) : after \in {add(q, i)}} : TRUE

\* downloadStatus.expectedCount
expectedCount == Len(tracks)

\* Faulty variant: the summary condition holds on every check.
ProgressIsOneAlways(value, total) == TRUE

\* bar.getProgress() === 1: value / total clamped to [0, 1]; 0 / 0 is NaN,
\* which cli-progress reports as 1.
ProgressIsOne(value, total) == IF total = 0 THEN TRUE ELSE value >= total

\* The finally block of the retry loop, run with the tallies s and f:
\* bar.update, then the summary if the bar is complete.
Finally(s, f) ==
    /\ barValue' = Len(s) + Len(f)
    /\ summary' =
         IF ProgressIsOne(Len(s) + Len(f), barTotal)
         THEN Append(summary, [total |-> expectedCount, successful |-> Len(s),
                               failures |-> Len(f)])
         ELSE summary

\* fs.ensureDir returned: the handler creates downloadStatus and the bar,
\* and hands one thunk per track to queue.addAll.
EnsureDirDone(ok) ==
    /\ pc = "ensureDir"
    /\ IF ~ok
       THEN /\ Caught(<<"ensureDir failed">>)
            /\ UNCHANGED <<dirCreated, statusVars, queueVars, jobVars>>
       ELSE \E n \in {Len(tracks)} :
            \E q \in {addAll([queue |-> queue, pending |-> pending, started |-> {}], 1, n)} :
               /\ dirCreated' = TRUE
               /\ topError' = topError
               /\ success' = <<>>
               /\ failures' = <<>>
               /\ barTotal' = n
               /\ barValue' = 0
               /\ summary' = summary
               /\ queue' = q.queue
               /\ pending' = q.pending
               /\ jpc' = [i \in 1..n |-> IF i \in q.started THEN "lookup" ELSE "queued"]
               /\ attempt' = [i \in 1..n |-> 0]
               /\ calls' = [i \in 1..n |-> IF i \in q.started THEN 1 ELSE 0]
               /\ result' = [i \in 1..n |-> "none"]
               /\ delays' = [i \in 1..n |-> <<>>]
               /\ steps' = [i \in 1..n |-> <<>>]
               /\ leftover' = [i \in 1..n |-> FALSE]
               /\ trackNumber' = [i \in 1..n |-> 0]
               /\ pc' = "addAll"
    /\ UNCHANGED <<resolverVars, files>>

\* ---------------------------------------------------------------------
\* One job: the retry loop around downloadTrack
\* ---------------------------------------------------------------------
\* await new Promise((res) => setTimeout(res, ms))
RetryAfter(i, ms) ==
    /\ jpc' = [jpc EXCEPT ![i] = "delay"]
    /\ delays' = [delays EXCEPT ![i] = Append(@, ms)]

\* Faulty variant: a successful track is pushed to success twice.
AttemptSucceededTwice(i) ==
    /\ success' = Append(Append(success, tracks[i]), tracks[i])
    /\ failures' = failures
    /\ Finally(success', failures')
    /\ attempt' = attempt
    /\ result' = [result EXCEPT ![i] = "Success"]
    /\ jpc' = [jpc EXCEPT ![i] = "returned"]
    /\ UNCHANGED <<barTotal, calls, delays>>

\* downloadTrack resolved: log, push to success, break; the finally block
\* runs and the thunk returns.
AttemptSucceeded(i) ==
    /\ success' = Append(success, tracks[i])
    /\ failures' = failures
    /\ Finally(success', failures')
    /\ attempt' = attempt
    /\ result' = [result EXCEPT ![i] = "Success"]
    /\ jpc' = [jpc EXCEPT ![i] = "returned"]
    /\ UNCHANGED <<barTotal, calls, delays>>

\* Faulty variant: every failed attempt is pushed to failures.
AttemptFailedPushAlways(i) ==
    /\ attempt' = [attempt EXCEPT ![i] = attempt[i] + 1]
    /\ failures' = Append(failures, tracks[i])
    /\ success' = success
    /\ steps' = [steps EXCEPT ![i] = <<>>]
    /\ IF attempt'[i] = maxRetries
       THEN /\ Finally(success', failures')
            /\ result' = [result EXCEPT ![i] = "Exhausted"]
            /\ jpc' = [jpc EXCEPT ![i] = "returned"]
            /\ delays' = delays
       ELSE /\ RetryAfter(i, retryDelay)
            /\ UNCHANGED <<barValue, summary, result>>
    /\ UNCHANGED <<barTotal, calls>>

\* Faulty variant: the last failed attempt is not pushed to failures.
AttemptFailedNoPush(i) ==
    /\ attempt' = [attempt EXCEPT ![i] = attempt[i] + 1]
    /\ steps' = [steps EXCEPT ![i] = <<>>]
    /\ IF attempt'[i] = maxRetries
       THEN /\ Finally(success, failures)
            /\ result' = [result EXCEPT ![i] = "Exhausted"]
            /\ jpc' = [jpc EXCEPT ![i] = "returned"]
            /\ delays' = delays
       ELSE /\ RetryAfter(i, retryDelay)
            /\ UNCHANGED <<barValue, summary, result>>
    /\ UNCHANGED <<success, failures, barTotal, calls>>

\* Faulty variant: the catch block does not count the attempt.
AttemptFailedNoIncrement(i) ==
    /\ steps' = [steps EXCEPT ![i] = <<>>]
    /\ RetryAfter(i, retryDelay)
    /\ UNCHANGED <<attempt, success, failures, barValue, summary, result,
                   barTotal, calls>>

\* Faulty variant: the last failed attempt rethrows out of the thunk.
AttemptFailedRethrow(i) ==
    /\ attempt' = [attempt EXCEPT ![i] = attempt[i] + 1]
    /\ steps' = [steps EXCEPT ![i] = <<>>]
    /\ IF attempt'[i] = maxRetries
       THEN /\ Finally(success, failures)
            /\ jpc' = [jpc EXCEPT ![i] = "threw"]
            /\ delays' = delays
       ELSE /\ RetryAfter(i, retryDelay)
            /\ UNCHANGED <<barValue, summary>>
    /\ UNCHANGED <<success, failures, result, barTotal, calls>>

\* Faulty variant: the delay doubles with every failed attempt.
AttemptFailedBackoff(i) ==
    /\ attempt' = [attempt EXCEPT ![i] = attempt[i] + 1]
    /\ steps' = [steps EXCEPT ![i] = <<>>]
    /\ IF attempt'[i] = maxRetries
       THEN /\ failures' = Append(failures, tracks[i])
            /\ success' = success
            /\ Finally(success', failures')
            /\ result' = [result EXCEPT ![i] = "Exhausted"]
            /\ jpc' = [jpc EXCEPT ![i] = "returned"]
            /\ delays' = delays
       ELSE /\ RetryAfter(i, retryDelay * (2 ^ attempt[i]))
            /\ UNCHANGED <<success, failures, barValue, summary, result>>
    /\ UNCHANGED <<barTotal, calls>>

\* downloadTrack threw: the catch block.  On the last attempt the track is
\* pushed to failures, the finally block runs, the loop condition fails
\* and the thunk returns; otherwise the thunk awaits the delay.
AttemptFailed(i) ==
    /\ attempt' = [attempt EXCEPT ![i] = attempt[i] + 1]
    /\ steps' = [steps EXCEPT ![i] = <<>>]
    /\ IF attempt'[i] = maxRetries
       THEN /\ failures' = Append(failures, tracks[i])
            /\ success' = success
            /\ Finally(success', failures')
            /\ result' = [result EXCEPT ![i] = "Exhausted"]
            /\ jpc' = [jpc EXCEPT ![i] = "returned"]
            /\ delays' = delays
       ELSE /\ RetryAfter(i, retryDelay)
            /\ UNCHANGED <<success, failures, barValue, summary, result>>
    /\ UNCHANGED <<barTotal, calls>>

Running(i, at) == pc = "addAll" /\ i \in DOMAIN jpc /\ jpc[i] = at

\* The index the map callback gets for the track at position i (positions
\* are counted from 1 here, array indices from 0).
index(i) == i - 1

\* The lookup service answered: "ok" (success flag and metadata, the audio
\* request is sent), "nometa" (either is missing) or "error" (axios threw).
LookupResponse(i, r) ==
    /\ Running(i, "lookup")
    /\ IF r = "ok"
       THEN /\ jpc' = [jpc EXCEPT ![i] = "audio"]
            /\ steps' = [steps EXCEPT ![i] = Append(@, "lookup")]
            /\ UNCHANGED <<statusVars, attempt, calls, result, delays>>
       ELSE AttemptFailed(i)
    /\ UNCHANGED <<pc, resolverVars, dirCreated, topError, queueVars, diskVars, files>>

\* The audio request answered; on success the cover request is sent.
AudioResponse(i, ok) ==
    /\ Running(i, "audio")
    /\ IF ok
       THEN /\ jpc' = [jpc EXCEPT ![i] = "cover"]
            /\ steps' = [steps EXCEPT ![i] = Append(@, "audio")]
            /\ UNCHANGED <<statusVars, attempt, calls, result, delays>>
       ELSE AttemptFailed(i)
    /\ UNCHANGED <<pc, resolverVars, dirCreated, topError, queueVars, diskVars, files>>

\* The cover request answered; on success fs.writeFile is called.
CoverResponse(i, ok) ==
    /\ Running(i, "cover")
    /\ IF ok
       THEN /\ jpc' = [jpc EXCEPT ![i] = "write"]
            /\ steps' = [steps EXCEPT ![i] = Append(@, "cover")]
            /\ UNCHANGED <<statusVars, attempt, calls, result, delays>>
       ELSE AttemptFailed(i)
    /\ UNCHANGED <<pc, resolverVars, dirCreated, topError, queueVars, diskVars, files>>

\* Faulty variant: the result of NodeID3.write is not looked at.
WriteDoneIgnoreTag(i, r) ==
    /\ Running(i, "write")
    /\ files' = IF r = "writeError" THEN files ELSE files \cup {Filename(tracks[i])}
    /\ IF r = "writeError"
       THEN UNCHANGED diskVars
       ELSE /\ trackNumber' = [trackNumber EXCEPT ![i] = index(i) + 1]
            /\ leftover' = [leftover EXCEPT ![i] = FALSE]
    /\ IF r = "writeError"
       THEN AttemptFailed(i)
       ELSE /\ AttemptSucceeded(i)
            /\ steps' = [steps EXCEPT ![i] =
                            @ \o (IF r = "ok" THEN <<"write", "tag">> ELSE <<"write">>)]
    /\ UNCHANGED <<pc, resolverVars, dirCreated, topError, queueVars>>

\* Faulty variant: the trackNumber tag is the array index itself.
WriteDoneZeroBased(i, r) ==
    /\ Running(i, "write")
    /\ files' = IF r = "writeError" THEN files ELSE files \cup {Filename(tracks[i])}
    /\ IF r = "writeError"
       THEN UNCHANGED diskVars
       ELSE /\ trackNumber' = [trackNumber EXCEPT ![i] = index(i)]
            /\ leftover' = [leftover EXCEPT ![i] = (r = "tagFail")]
    /\ IF r = "ok"
       THEN /\ AttemptSucceeded(i)
            /\ steps' = [steps EXCEPT ![i] = @ \o <<"write", "tag">>]
       ELSE AttemptFailed(i)
    /\ UNCHANGED <<pc, resolverVars, dirCreated, topError, queueVars>>

\* fs.writeFile returned: "writeError" (it threw, no file), or the file is
\* on disk and NodeID3.write, which is synchronous, reported failure
\* ("tagFail") or success ("ok").
WriteDone(i, r) ==
    /\ Running(i, "write")
    /\ files' = IF r = "writeError" THEN files ELSE files \cup {Filename(tracks[i])}
    /\ IF r = "writeError"
       THEN UNCHANGED diskVars
       ELSE /\ trackNumber' = [trackNumber EXCEPT ![i] = index(i) + 1]
            /\ leftover' = [leftover EXCEPT ![i] = (r = "tagFail")]
    /\ IF r = "ok"
       THEN /\ AttemptSucceeded(i)
            /\ steps' = [steps EXCEPT ![i] = @ \o <<"write", "tag">>]
       ELSE AttemptFailed(i)
    /\ UNCHANGED <<pc, resolverVars, dirCreated, topError, queueVars>>

\* The retry delay elapsed: the finally block of the failed attempt runs,
\* then the loop condition is tested and the next attempt starts.
DelayElapsed(i) ==
    /\ Running(i, "delay")
    /\ Finally(success, failures)
    /\ IF attempt[i] < maxRetries
       THEN /\ jpc' = [jpc EXCEPT ![i] = "lookup"]
            /\ calls' = [calls EXCEPT ![i] = calls[i] + 1]
       ELSE /\ jpc' = [jpc EXCEPT ![i] = "returned"]
            /\ calls' = calls
    /\ UNCHANGED <<pc, resolverVars, dirCreated, topError, success, failures,
                   barTotal, queueVars, attempt, result, traceVars, files>>

\* Faulty variant: a settled job releases its slot but the queue does not
\* start the next job.
JobSettledNoNext(i) ==
    /\ pc = "addAll"
    /\ i \in DOMAIN jpc
    /\ jpc[i] \in {"returned", "threw"}
    /\ pending' = pending - 1
    /\ jpc' = [jpc EXCEPT ![i] = IF jpc[i] = "returned" THEN "released" ELSE "rejected"]
    /\ UNCHANGED <<pc, resolverVars, dirCreated, topError, statusVars, queue,
                   attempt, calls, result, traceVars, files>>

\* PQueue's wrapper around a thunk: the thunk's promise settled, the
\* promise of add settles the same way, the slot is released (next) and
\* the job at the head of the queue starts.
JobSettled(i) ==
    /\ pc = "addAll"
    /\ i \in DOMAIN jpc
    /\ jpc[i] \in {"returned", "threw"}
    /\ \E q \in {tryToStartAnother([queue |-> queue, pending |-> pending - 1,
                                     started |-> {}])} :
          /\ queue' = q.queue
          /\ pending' = q.pending
          /\ jpc' = [k \in DOMAIN jpc |->
                       IF k = i THEN (IF jpc[i] = "returned" THEN "released" ELSE "rejected")
                       ELSE IF k \in q.started THEN "lookup" ELSE jpc[k]]
          /\ calls' = [k \in DOMAIN calls |->
                         IF k \in q.started THEN calls[k] + 1 ELSE calls[k]]
    /\ UNCHANGED <<pc, resolverVars, dirCreated, topError, statusVars, attempt,
                   result, traceVars, files>>

\* await queue.addAll(...): Promise.all over the promises of add resolves
\* when all have resolved and rejects when one has rejected.
AwaitAddAll ==
    /\ pc = "addAll"
    /\ \/ \E i \in DOMAIN jpc : jpc[i] = "rejected"
       \/ \A i \in DOMAIN jpc : jpc[i] = "released"
    /\ IF \E i \in DOMAIN jpc : jpc[i] = "rejected"
       THEN Caught(<<"track error">>)
       ELSE pc' = "done" /\ topError' = topError
    /\ UNCHANGED <<resolverVars, dirCreated, statusVars, queueVars, jobVars, files>>

\* ---------------------------------------------------------------------
\* Specifications
\* ---------------------------------------------------------------------
ErrorResponse == [kind |-> "error", items |-> <<>>, next |-> FALSE]

\* Items a response of a resource of the given type may carry.
Items(type) ==
    IF type = "album" THEN {FlatItem(t) : t \in ApiTracks}
    ELSE {WrappedItem(t) : t \in ApiTracks} \cup {NullItem}

\* Spec: every response upstream may give while at most MaxTracks tracks
\* and MaxPages follow-up pages are served.
Responses ==
    {ErrorResponse} \cup
    {[kind |-> "ok", items |-> its, next |-> n] :
        its \in SeqsUpTo(Items(resType), MaxTracks - Len(tracks)),
        n \in IF resourceRequests <= MaxPages THEN BOOLEAN ELSE {FALSE}}

JobIds == DOMAIN jpc

\* Spec: the positions whose requests may fail; any job may be the next to
\* have its awaited operation complete.
FailingJobs == {1, 2}
LookupResults(i) == IF i \in FailingJobs THEN {"error", "nometa", "ok"} ELSE {"ok"}
FetchResults(i) == IF i \in FailingJobs THEN BOOLEAN ELSE {TRUE}
WriteResults(i) == IF i \in FailingJobs THEN {"writeError", "tagFail", "ok"} ELSE {"ok"}

Next ==
    \/ \E url \in Urls : Handler(url)
    \/ \E r \in {"error", "notoken", "token"} : TokenResponse(r)
    \/ \E r \in Responses : ResourceResponse(r)
    \/ \E r \in Responses : PageResponse(r)
    \/ \E ok \in BOOLEAN : EnsureDirDone(ok)
    \/ \E i \in JobIds : \E r \in LookupResults(i) : LookupResponse(i, r)
    \/ \E i \in JobIds : \E ok \in FetchResults(i) : AudioResponse(i, ok)
    \/ \E i \in JobIds : \E ok \in FetchResults(i) : CoverResponse(i, ok)
    \/ \E i \in JobIds : \E r \in WriteResults(i) : WriteDone(i, r)
    \/ \E i \in JobIds : DelayElapsed(i)
    \/ \E i \in JobIds : JobSettled(i)
    \/ AwaitAddAll

Spec == Init /\ [][Next]_vars

\* SpecBig: a playlist of BigTracks entries (the same track repeated),
\* served as a first page of `concurrency` entries and one follow-up page
\* with the rest.  Every request of the resolution
\* succeeds; a request of a job may fail only for the positions in
\* FlakyJobs; the awaited operations complete for the Window lowest
\* in-flight positions first.
FlakyJobs == {1}

BigUrl == [parses |-> TRUE, hostname |-> <<"open.", "spotify.com">>,
           pathname |-> <<"/", "playlist", "/", "x1">>]

BigTrack(k) == [id |-> "a", name |-> "n1", artists |-> <<[name |-> "p"]>>]

BigFirstPage ==
    [kind |-> "ok", items |-> [k \in 1..concurrency |-> WrappedItem(BigTrack(k))],
     next |-> TRUE]
BigNextPage ==
    [kind |-> "ok",
     items |-> [k \in 1..(BigTracks - concurrency) |-> WrappedItem(BigTrack(concurrency + k))],
     next |-> FALSE]

InFlight == {i \in JobIds : jpc[i] \in {"lookup", "audio", "cover", "write", "delay", "returned"}}
Scheduled == {i \in InFlight : Cardinality({k \in InFlight : k < i}) < Window}

NextBig ==
    \/ Handler(BigUrl)
    \/ TokenResponse("token")
    \/ ResourceResponse(BigFirstPage)
    \/ PageResponse(BigNextPage)
    \/ EnsureDirDone(TRUE)
    \/ \E i \in Scheduled :
         \E r \in IF i \in FlakyJobs THEN {"error", "nometa", "ok"} ELSE {"ok"} :
            LookupResponse(i, r)
    \/ \E i \in Scheduled :
         \E ok \in IF i \in FlakyJobs THEN BOOLEAN ELSE {TRUE} : AudioResponse(i, ok)
    \/ \E i \in Scheduled :
         \E ok \in IF i \in FlakyJobs THEN BOOLEAN ELSE {TRUE} : CoverResponse(i, ok)
    \/ \E i \in Scheduled :
         \E r \in IF i \in FlakyJobs THEN {"writeError", "tagFail", "ok"} ELSE {"ok"} :
            WriteDone(i, r)
    \/ \E i \in Scheduled : DelayElapsed(i)
    \/ \E i \in Scheduled : JobSettled(i)
    \/ AwaitAddAll

SpecBig == Init /\ [][NextBig]_vars

\* Every awaited operation eventually returns: a continuation that is
\* ready to run is eventually run by the event loop.
SpecBigFair == SpecBig /\ WF_vars(NextBig)

\* ---------------------------------------------------------------------
\* Properties
\* ---------------------------------------------------------------------
Sum == Len(success) + Len(failures)
Settled(i) == result[i] \in {"Success", "Exhausted"}
CountResult(r) == Cardinality({i \in JobIds : result[i] = r})
Ids(seq) == {seq[k].id : k \in 1..Len(seq)}
Occurrences(seq, id) == Cardinality({k \in 1..Len(seq) : seq[k].id = id})
Active == {i \in JobIds : jpc[i] \in {"lookup", "audio", "cover", "write", "delay"}}
ParseErrors ==
    { <<"Invalid URL">>,
      <<"Invalid domain. Only Spotify URLs are supported.">>,
      <<"Invalid Spotify URL. Must be a valid album or playlist URL.">> }

\* C1: success.length + failures.length never exceeds expectedCount; it
\* equals expectedCount once queue.addAll has resolved; and whenever it
\* equals expectedCount in a run with jobs, every job has reached its
\* terminal state.
C1_SumBounded ==
    /\ Sum <= expectedCount
    /\ (pc = "done" => Sum = expectedCount)
    /\ (pc \in {"addAll", "done"} /\ Sum = expectedCount
          => \A i \in JobIds : Settled(i) /\ jpc[i] \in {"returned", "released"})

C1_Witness ==
    /\ pc = "done"
    /\ Len(success) = 1
    /\ Len(failures) = 1

\* C2 (as stated): at completion every track id of the resolved list is in
\* exactly one of success and failures.
C2_ExactlyOneById ==
    pc = "done" =>
        \A k \in 1..Len(tracks) :
            (tracks[k].id \in Ids(success)) # (tracks[k].id \in Ids(failures))

\* C2 (amended): at completion every entry of the resolved list is recorded
\* exactly once, in exactly one of success and failures: for every track
\* id, its entries in success plus its entries in failures are as many as
\* its entries in the list, the entry of each job is in the list its
\* terminal state names, and an id listed once is in exactly one of the two.
C2_EveryEntryRecordedOnce ==
    pc = "done" =>
        /\ Ids(success) \cup Ids(failures) \subseteq Ids(tracks)
        /\ \A id \in Ids(tracks) :
              /\ Occurrences(success, id) + Occurrences(failures, id)
                    = Occurrences(tracks, id)
              /\ Occurrences(success, id)
                    = Cardinality({i \in JobIds : tracks[i].id = id /\ result[i] = "Success"})
              /\ Occurrences(failures, id)
                    = Cardinality({i \in JobIds : tracks[i].id = id /\ result[i] = "Exhausted"})
              /\ (Occurrences(tracks, id) = 1
                    => (id \in Ids(success)) # (id \in Ids(failures)))

C2_Witness ==
    /\ pc = "done"
    /\ Len(tracks) = 2
    /\ tracks[1].id = tracks[2].id
    /\ Len(success) = 1
    /\ Len(failures) = 1

\* C3: a job invokes downloadTrack at most maxRetries times; it is recorded
\* in failures exactly when its maxRetries-th attempt has failed, after
\* exactly maxRetries invocations; a job whose attempt succeeds is recorded
\* in success after one invocation more than its failed attempts, is not
\* recorded in failures, and a settled job makes no further attempt.
C3_RetryBound ==
    /\ \A i \in JobIds :
          /\ calls[i] <= maxRetries
          /\ attempt[i] <= maxRetries
          /\ (result[i] = "Exhausted" <=> attempt[i] = maxRetries)
          /\ (result[i] = "Exhausted" => calls[i] = maxRetries)
          /\ (result[i] = "Success" => calls[i] = attempt[i] + 1)
          /\ (Settled(i) <=> jpc[i] \in {"returned", "released"})
          /\ (jpc[i] \in {"lookup", "audio", "cover", "write"} => calls[i] = attempt[i] + 1)
          /\ (jpc[i] = "delay" => calls[i] = attempt[i])
    /\ Len(failures) = CountResult("Exhausted")
    /\ Len(success) = CountResult("Success")

C3_Witness ==
    /\ \E i \in JobIds : result[i] = "Exhausted" /\ calls[i] = maxRetries
    /\ \E j \in JobIds : result[j] = "Success" /\ attempt[j] = maxRetries - 1

C5_SettleAll ==
    /\ [](pc = "done" => \A i \in JobIds : Settled(i) /\ jpc[i] = "released")
    /\ ((\E i \in JobIds : result[i] = "Exhausted")
           ~> (\A j \in JobIds : Settled(j)))
    /\ (pc = "addAll" ~> pc = "done")

C5_Witness ==
    /\ pc = "done"
    /\ Len(tracks) > concurrency
    /\ result[1] = "Exhausted"
    /\ result[Len(tracks)] = "Success"

\* C6: the summary is logged at most once, never while
\* success + failures < expectedCount, and it reports the number of tracks,
\* the number of jobs that ended in Success and the number that ended
\* Exhausted.
C6_SummaryOnce ==
    /\ Len(summary) <= 1
    /\ (summary # <<>> =>
          /\ Sum = expectedCount
          /\ \A i \in JobIds : Settled(i)
          /\ summary[1] = [total |-> Len(tracks),
                           successful |-> CountResult("Success"),
                           failures |-> CountResult("Exhausted")])

C6_Witness ==
    /\ pc = "done"
    /\ summary = <<[total |-> 2, successful |-> 1, failures |-> 1]>>
    /\ \E j \in JobIds : result[j] = "Success" /\ attempt[j] = 1

\* C7: in every run whose resolution succeeds, whatever the number of
\* tracks, the summary has been logged exactly once when the run ends.
C7_SummaryAtCompletion ==
    pc = "done" => Sum = expectedCount /\ Len(summary) = 1

\* C8: no error leaves a thunk, no promise of the queue rejects, the
\* handler's catch is not reached once jobs exist, and a job that
\* exhausted its retries is in failures.
C8_TrackErrorsContained ==
    /\ \A i \in JobIds : jpc[i] \notin {"threw", "rejected"}
    /\ (JobIds # {} => pc \in {"addAll", "done"} /\ topError = <<>>)
    /\ \A i \in JobIds :
          result[i] = "Exhausted" => \E k \in 1..Len(failures) : failures[k] = tracks[i]
    /\ (pc = "done" => CountResult("Exhausted") = Len(failures))

C8_Witness ==
    /\ pc = "done"
    /\ topError = <<>>
    /\ \E i \in JobIds : result[i] = "Exhausted"

\* C9: when parseSpotifyUrl throws, the handler has ended in its catch with
\* the parse error reported, and no request was sent, no directory
\* created, no job enqueued and no file written.
C9_ParseFailureAborts ==
    (pc # "init" /\ resType = "none") =>
        /\ pc = "caught"
        /\ topError \in ParseErrors
        /\ tokenRequests = 0
        /\ resourceRequests = 0
        /\ ~dirCreated
        /\ JobIds = {}
        /\ queue = <<>>
        /\ pending = 0
        /\ files = {}
        /\ summary = <<>>

C9_Witness ==
    /\ pc = "caught"
    /\ topError = <<"Invalid domain. Only Spotify URLs are supported.">>

\* C10: when the token request, the resource request or a follow-up page
\* request fails, the handler has ended in its catch with the error
\* reported, the accumulated tracks are gone, and no directory was
\* created, no job enqueued, no lookup sent and no summary logged.
C10_ResolutionFailureAborts ==
    upstreamFailed =>
        /\ pc = "caught"
        /\ topError = FetchInfoError(resType)
        /\ tracks = <<>>
        /\ ~dirCreated
        /\ JobIds = {}
        /\ queue = <<>>
        /\ pending = 0
        /\ files = {}
        /\ summary = <<>>
        /\ barTotal = -1

C10_Witness ==
    /\ upstreamFailed
    /\ resourceRequests = 2
    /\ pc = "caught"

\* C11: once the token request has been answered without a usable token
\* (the endpoint was unreachable, or its response carried no accessToken),
\* the handler has ended in its catch with the error reported and no
\* authenticated request was sent to api.spotify.com.
C11_TokenFailureAborts ==
    (tokenRequests > 0 /\ pc # "token" /\ accessToken # "tok") =>
        /\ pc = "caught"
        /\ topError = FetchInfoError(resType)
        /\ resourceRequests = 0

Resolved == pc \in {"ensureDir", "addAll", "done"}

\* C12: while no request of the resolution has failed, the accumulated
\* track list is the normalised concatenation of the items of the pages
\* taken in, in page order, and has as many entries as the pages had items;
\* a follow-up page is requested exactly when the last page named a next
\* page, and the resource is returned exactly when it named none.
C12_PagesConcatenated ==
    /\ (pc = "page" \/ Resolved) =>
          /\ tracks = getTracks(served)
          /\ Len(tracks) = servedCount
    /\ (pc = "page" => nextSeen)
    /\ (Resolved => ~nextSeen)
    /\ (nextSeen => pc \in {"page", "caught"})

C12_Witness ==
    /\ pc = "ensureDir"
    /\ resourceRequests = 2
    /\ Len(tracks) = 2
    /\ tracks[1].id = "a"
    /\ tracks[2].id = "b"

\* The hosts Spotify serves albums and playlists from, and the paths of
\* the form /{album|playlist}/{id} with a non-empty id.
SpotifyHosts == { <<"open.", "spotify.com">>, <<"spotify.com">> }
IsResourcePath(pathname) ==
    LET pathParts == split(pathname, "")
    IN /\ Len(pathParts) >= 3
       /\ pathParts[1] = ""
       /\ pathParts[2] \in {"album", "playlist"}
       /\ pathParts[3] # ""
IsResourceUrl(url) ==
    url.parses /\ url.hostname \in SpotifyHosts /\ IsResourcePath(url.pathname)

\* C13: when the handler parses a URL, parseSpotifyUrl returns a type only
\* if the URL's host is a Spotify host and its path is
\* /{album|playlist}/{id} with a non-empty id; for every other URL it
\* throws one of its invalid-URL errors and the handler ends in its catch.
C13_ParseOnlySpotifyResources ==
    [][\A url \in Urls :
          Handler(url) =>
             IF IsResourceUrl(url)
             THEN resType' \in {"album", "playlist"} /\ pc' # "caught"
             ELSE resType' = "none" /\ pc' = "caught" /\ topError' \in ParseErrors]_vars

\* C14: at all times success and failures hold one entry for every job
\* that has reached Success and Exhausted respectively; a job's terminal
\* state never changes once reached; every step that changes success or
\* failures appends the track of exactly one job, the job that reaches
\* its terminal state in that step, to the list of that state; and a
\* failed attempt with attempts remaining leaves both lists unchanged.
C14_RecordedOnceAtTerminal ==
    /\ [](/\ Len(success) = CountResult("Success")
          /\ Len(failures) = CountResult("Exhausted")
          /\ \A i \in JobIds : Settled(i) <=> jpc[i] \in {"returned", "released"})
    /\ [][JobIds # {} =>
            /\ \A i \in JobIds : result[i] # "none" => result'[i] = result[i]
            /\ \A i \in JobIds :
                  (attempt'[i] = attempt[i] + 1 /\ attempt'[i] < maxRetries) =>
                      /\ success' = success
                      /\ failures' = failures
                      /\ result' = result
            /\ \/ /\ success' = success
                  /\ failures' = failures
                  /\ result' = result
               \/ \E i \in JobIds :
                     /\ result[i] = "none"
                     /\ result' = [result EXCEPT ![i] = "Success"]
                     /\ success' = Append(success, tracks[i])
                     /\ failures' = failures
               \/ \E i \in JobIds :
                     /\ result[i] = "none"
                     /\ result' = [result EXCEPT ![i] = "Exhausted"]
                     /\ failures' = Append(failures, tracks[i])
                     /\ success' = success]_vars

C14_Witness ==
    /\ pc = "addAll"
    /\ Len(success) = 1
    /\ Len(failures) = 1
    /\ \E i \in JobIds : result[i] = "Exhausted" /\ jpc[i] = "released"

\* C15: every delay a job has awaited is the same fixed delay; a job has
\* awaited one delay for each of its failed attempts but the maxRetries-th,
\* after which it is recorded in failures with no further delay; an
\* attempt in progress is the job's (number of delays + 1)-th, so exactly
\* one delay lies between two consecutive attempts; and a job that
\* succeeded awaited no delay after its last attempt.
C15_FlatDelayBetweenAttempts ==
    \A i \in JobIds :
        /\ \A k \in 1..Len(delays[i]) : delays[i][k] = 1000
        /\ Len(delays[i]) =
               IF attempt[i] = maxRetries THEN maxRetries - 1 ELSE attempt[i]
        /\ (jpc[i] \in {"lookup", "audio", "cover", "write"} =>
                calls[i] = Len(delays[i]) + 1)
        /\ (jpc[i] = "delay" => result[i] = "none" /\ calls[i] = Len(delays[i]))
        /\ (result[i] = "Success" => calls[i] = Len(delays[i]) + 1)
        /\ (result[i] = "Exhausted" =>
                /\ calls[i] = maxRetries
                /\ Len(delays[i]) = maxRetries - 1
                /\ jpc[i] # "delay")

C15_Witness ==
    /\ \E i \in JobIds : result[i] = "Exhausted" /\ Len(delays[i]) = maxRetries - 1
    /\ \E i \in JobIds : result[i] = "Success" /\ Len(delays[i]) = 2

\* C16: a job that exhausted its retries, and so has no later attempt,
\* has left no file on disk that one of its failed attempts wrote: either
\* its failed attempts wrote none, or none of what they wrote remains.
C16_FailedAttemptsLeaveNoFile ==
    \A i \in JobIds :
        result[i] = "Exhausted" => ~(leftover[i] /\ Filename(tracks[i]) \in files)

AllSteps == <<"lookup", "audio", "cover", "write", "tag">>
IsPrefix(s, t) == Len(s) <= Len(t) /\ \A k \in 1..Len(s) : s[k] = t[k]

\* C17: the steps an attempt has completed are always a prefix of lookup,
\* audio, cover, write, tag; fs.writeFile is awaited only by an attempt
\* that has completed lookup, audio and cover; a job is in Success exactly
\* if its attempt completed all five steps, the tag embed last; and every
\* step that puts a file on disk or passes tags to NodeID3.write is the
\* continuation of fs.writeFile of such an attempt.
C17_StepsInOrder ==
    /\ [](\A i \in JobIds :
            /\ IsPrefix(steps[i], AllSteps)
            /\ (jpc[i] = "lookup" => steps[i] = <<>>)
            /\ (jpc[i] = "audio" => steps[i] = <<"lookup">>)
            /\ (jpc[i] = "cover" => steps[i] = <<"lookup", "audio">>)
            /\ (jpc[i] = "write" => steps[i] = <<"lookup", "audio", "cover">>)
            /\ (result[i] = "Success" <=> steps[i] = AllSteps))
    /\ [][JobIds # {} =>
            /\ \A name \in files' \ files :
                  \E i \in JobIds :
                     /\ jpc[i] = "write"
                     /\ steps[i] = <<"lookup", "audio", "cover">>
                     /\ name = Filename(tracks[i])
            /\ \A i \in JobIds :
                  (trackNumber'[i] # trackNumber[i] \/ leftover'[i] # leftover[i]) =>
                     /\ jpc[i] = "write"
                     /\ Filename(tracks[i]) \in files']_vars

C17_Witness ==
    /\ \E i \in JobIds : result[i] = "Success" /\ attempt[i] >= 1 /\ steps[i] = AllSteps
    /\ \E i \in JobIds : result[i] = "Exhausted" /\ leftover[i]

Started(i) == jpc[i] # "queued"
HasSettled(i) == jpc[i] \in {"released", "rejected"}

C19_TrackNumberIsPosition ==
    \A i \in JobIds :
        /\ trackNumber[i] \in {0, i}
        /\ (result[i] = "Success" => trackNumber[i] = i)
        /\ (leftover[i] => trackNumber[i] = i)

C19_Witness ==
    /\ JobIds = {1, 2}
    /\ result[2] = "Success"
    /\ attempt[2] >= 1
    /\ trackNumber[2] = 2
    /\ result[1] = "none"
    /\ trackNumber[1] = 1

====
